---- MODULE Spec2Model ----
(***************************************************************************)
(* A model of the JSON Configuration Visualizer (json_visualizer.py):      *)
(* JSONVisualizerApp's state and event handlers, the recursive tree and    *)
(* panel builders, the search, the heatmap and the diff scorer.            *)
(*                                                                         *)
(* Text is a sequence of one-character strings, so that concatenation,     *)
(* substring tests, splitting and ordering are computed, not assumed.      *)
(* A JSON value is a record [t, v]: t is the kind json.load produces       *)
(* (None, bool, int, str, list, dict) and v the payload; a dict is the     *)
(* sequence of its items in insertion order.                               *)
(***************************************************************************)
EXTENDS Integers, Sequences, FiniteSets, TLC

VARIABLES
    \* JSONVisualizerApp fields
    files, current_tabs, search_results, all_entries, tree_paths,
    tab_json, tab_frames, tab_initialized,
    \* widgets the handlers read and write
    notebook, selected, results_listbox, search_var, focus,
    diff_text, heatmap, error_shown, idle_pending,
    \* the handler that ran last, with its input
    last,
    \* diff_count applied to drawn inputs
    a, b, score, rscore, base, dpc

appVars == <<files, current_tabs, search_results, all_entries, tree_paths,
             tab_json, tab_frames, tab_initialized, notebook, selected,
             results_listbox, search_var, focus, diff_text, heatmap,
             error_shown, idle_pending, last>>
diffVars == <<a, b, score, rscore, base, dpc>>
vars == <<appVars, diffVars>>

----------------------------------------------------------------------------
(* JSON values *)

JNull == [t |-> "null", v |-> 0]
JBool(x) == [t |-> "bool", v |-> x]
JNum(n) == [t |-> "num", v |-> n]
JStr(s) == [t |-> "str", v |-> s]
JArr(s) == [t |-> "arr", v |-> s]
JObj(s) == [t |-> "obj", v |-> s]
KV(k, x) == [key |-> k, val |-> x]

IsDict(x) == x.t = "obj"
IsList(x) == x.t = "arr"
IsNone(x) == x.t = "null"
\* dict.keys() as a set
KeySet(d) == {d.v[i].key : i \in DOMAIN d.v}

\* dict.get(k): the value stored under k, None when k is missing
DictGet(d, k) ==
    IF k \in KeySet(d)
    THEN d.v[CHOOSE i \in DOMAIN d.v : d.v[i].key = k].val
    ELSE JNull

\* a[i] if i < len(a) else None (i is 0-based, as in the source)
ListGet(l, i) == IF i < Len(l.v) THEN l.v[i + 1] ELSE JNull

\* Python's == on the values the last line of diff_count compares: bool is an
\* int subtype (True == 1, False == 0); values of different kinds are unequal;
\* containers of the same kind never reach that line.
NumOf(x) == IF x.t = "bool" THEN (IF x.v THEN 1 ELSE 0) ELSE x.v
IsNumeric(x) == x.t \in {"bool", "num"}
PyEq(x, y) ==
    IF IsNumeric(x) /\ IsNumeric(y) THEN NumOf(x) = NumOf(y)
    ELSE IF x.t # y.t THEN FALSE
    ELSE x = y

Max(m, n) == IF m >= n THEN m ELSE n

----------------------------------------------------------------------------
(* Diff scorer *)

RECURSIVE diff_count(_, _)
RECURSIVE SumKeys(_, _, _)
RECURSIVE SumIdx(_, _, _, _)

\* sum(self.diff_count(a.get(k), b.get(k)) for k in keys)
SumKeys(x, y, keys) ==
    IF keys = {} THEN 0
    ELSE LET k == CHOOSE k \in keys : TRUE
         IN diff_count(DictGet(x, k), DictGet(y, k)) + SumKeys(x, y, keys \ {k})

\* sum(self.diff_count(a[i] ..., b[i] ...) for i in range(length)), from i on
SumIdx(x, y, i, length) ==
    IF i >= length THEN 0
    ELSE diff_count(ListGet(x, i), ListGet(y, i)) + SumIdx(x, y, i + 1, length)

\* A variant without the rule for two absent values, which counts a missing
\* side as a difference whatever the other side is.
diff_count_nonone(x, y) ==
    IF IsDict(x) /\ IsDict(y) THEN SumKeys(x, y, KeySet(x) \cup KeySet(y))
    ELSE IF IsList(x) /\ IsList(y) THEN SumIdx(x, y, 0, Max(Len(x.v), Len(y.v)))
    ELSE IF ~IsNone(x) /\ ~IsNone(y) /\ PyEq(x, y) THEN 0 ELSE 1

\* A variant that scores only the keys of the first dict.
diff_count_left(x, y) ==
    IF IsNone(x) /\ IsNone(y) THEN 0
    ELSE IF IsDict(x) /\ IsDict(y) THEN SumKeys(x, y, KeySet(x))
    ELSE IF IsList(x) /\ IsList(y) THEN SumIdx(x, y, 0, Len(x.v))
    ELSE IF PyEq(x, y) THEN 0 ELSE 1

diff_count(x, y) ==
    IF IsNone(x) /\ IsNone(y) THEN 0
    ELSE IF IsDict(x) /\ IsDict(y) THEN SumKeys(x, y, KeySet(x) \cup KeySet(y))
    ELSE IF IsList(x) /\ IsList(y) THEN SumIdx(x, y, 0, Max(Len(x.v), Len(y.v)))
    ELSE IF PyEq(x, y) THEN 0 ELSE 1

----------------------------------------------------------------------------
(* Inputs of the diff scorer: JSON values nested to MaxDepth *)

MaxDepth == 2

Scalars == {JNull, JNum(0), JNum(1), JBool(TRUE), JStr(<<"a">>)}

\* Containers with two children, over scalars.
Wide ==
    { JArr(<<JNum(1), JNum(0)>>), JArr(<<JNull, JNum(1)>>),
      JObj(<<KV(<<"x">>, JNum(1)), KV(<<"y">>, JNum(0))>>),
      JObj(<<KV(<<"y">>, JNum(0)), KV(<<"x">>, JNum(1))>>),
      JObj(<<KV(<<"y">>, JBool(TRUE))>>) }

RECURSIVE JV(_)
JV(d) ==
    IF d = 0 THEN Scalars
    ELSE Scalars \cup Wide \cup {JArr(<<>>), JObj(<<>>)}
         \cup {JArr(<<x>>) : x \in JV(d - 1)}
         \cup {JObj(<<KV(<<"x">>, x)>>) : x \in JV(d - 1)}

JsonValues == JV(MaxDepth)

\* A position in a value: the dict keys and list indexes leading to it.
KeyStep(k) == [key |-> k, idx |-> -1]
IdxStep(i) == [key |-> <<>>, idx |-> i]

RECURSIVE Leaves(_)
Leaves(x) ==
    IF IsDict(x)
    THEN UNION {{<<KeyStep(x.v[i].key)>> \o p : p \in Leaves(x.v[i].val)} : i \in DOMAIN x.v}
    ELSE IF IsList(x)
    THEN UNION {{<<IdxStep(i - 1)>> \o p : p \in Leaves(x.v[i])} : i \in DOMAIN x.v}
    ELSE {<<>>}

RECURSIVE LeafAt(_, _)
LeafAt(x, p) ==
    IF p = <<>> THEN x
    ELSE IF IsDict(x) THEN LeafAt(DictGet(x, p[1].key), Tail(p))
    ELSE LeafAt(ListGet(x, p[1].idx), Tail(p))

RECURSIVE SetLeaf(_, _, _)
SetLeaf(x, p, s) ==
    IF p = <<>> THEN s
    ELSE IF IsDict(x)
    THEN JObj([i \in DOMAIN x.v |->
                 IF x.v[i].key = p[1].key
                 THEN KV(x.v[i].key, SetLeaf(x.v[i].val, Tail(p), s))
                 ELSE x.v[i]])
    ELSE JArr([i \in DOMAIN x.v |->
                 IF i - 1 = p[1].idx THEN SetLeaf(x.v[i], Tail(p), s) ELSE x.v[i]])

----------------------------------------------------------------------------
(* Text *)

\* The characters of the model in code-point order (str comparison, sorted()).
CharOrder ==
    <<" ", ".", "/", "0", "1", "2", "3", "4", "5", "6", "7", "8", "9", ":",
      "A", "B", "C", "F", "N", "T", "[", "]",
      "a", "b", "c", "d", "e", "j", "l", "m", "n", "o", "p", "r", "s", "t",
      "u", "x", "y">>
Ord(c) == CHOOSE i \in DOMAIN CharOrder : CharOrder[i] = c

\* str.lower(), one character
Lower(c) ==
    CASE c = "A" -> "a" [] c = "B" -> "b" [] c = "C" -> "c" [] c = "F" -> "f"
      [] c = "N" -> "n" [] c = "T" -> "t" [] OTHER -> c
LowerStr(s) == [i \in DOMAIN s |-> Lower(s[i])]

\* str.strip(): leading and trailing blanks removed
RECURSIVE LStrip(_)
LStrip(s) == IF s # <<>> /\ Head(s) = " " THEN LStrip(Tail(s)) ELSE s
RECURSIVE RStrip(_)
RStrip(s) ==
    IF s # <<>> /\ s[Len(s)] = " " THEN RStrip(SubSeq(s, 1, Len(s) - 1)) ELSE s
Strip(s) == RStrip(LStrip(s))

\* q in s
Contains(q, s) ==
    \E i \in 0..(Len(s) - Len(q)) : SubSeq(s, i + 1, i + Len(q)) = q

\* s < t on str: the first differing character decides, a proper prefix is less
RECURSIVE StrLess(_, _)
StrLess(s, t) ==
    IF t = <<>> THEN FALSE
    ELSE IF s = <<>> THEN TRUE
    ELSE IF Head(s) = Head(t) THEN StrLess(Tail(s), Tail(t))
    ELSE Ord(Head(s)) < Ord(Head(t))

\* sorted(S) of a set of str
RECURSIVE Sorted(_)
Sorted(S) ==
    IF S = {} THEN <<>>
    ELSE LET m == CHOOSE m \in S : \A o \in S \ {m} : StrLess(m, o)
         IN <<m>> \o Sorted(S \ {m})

\* str(n) of an int
Digit(n) == CharOrder[Ord("0") + n]
RECURSIVE StrNat(_)
StrNat(n) == IF n < 10 THEN <<Digit(n)>> ELSE StrNat(n \div 10) \o <<Digit(n % 10)>>
StrInt(n) == IF n < 0 THEN <<"-">> \o StrNat(-n) ELSE StrNat(n)

\* str(data) of a scalar
PyStr(x) ==
    CASE x.t = "null" -> <<"N", "o", "n", "e">>
      [] x.t = "bool" -> IF x.v THEN <<"T", "r", "u", "e">>
                                ELSE <<"F", "a", "l", "s", "e">>
      [] x.t = "num" -> StrInt(x.v)
      [] OTHER -> x.v

\* s.split(sep)[0]: the text before the first sep
RECURSIVE SplitFirst(_, _)
SplitFirst(s, sep) ==
    IF s = <<>> \/ Head(s) = sep THEN <<>>
    ELSE <<Head(s)>> \o SplitFirst(Tail(s), sep)

\* os.path.basename: the text after the last "/"
BasenameWhole(s) == s
RECURSIVE Basename(_)
Basename(s) ==
    IF \E i \in DOMAIN s : s[i] = "/" THEN Basename(Tail(s)) ELSE s

\* list.index(x), 0-based
IndexOf(seq, x) == (CHOOSE i \in DOMAIN seq : seq[i] = x /\ \A j \in 1..(i - 1) : seq[j] # x) - 1

----------------------------------------------------------------------------
(* Paths, the navigation tree and the panel *)

\* f"{path_prefix}.{k}" if path_prefix else k
ChildPath(path_prefix, k) ==
    IF path_prefix # <<>> THEN path_prefix \o <<".">> \o k ELSE k

\* f"{path_prefix}[{idx}]"
IndexLabel(idx) == <<"[">> \o StrInt(idx) \o <<"]">>
IndexPath(path_prefix, idx) == path_prefix \o IndexLabel(idx)

\* The paths build_tree_nodes records in tree_paths under one node, in the
\* order the items are inserted.
RECURSIVE build_tree_nodes(_, _)
RECURSIVE TreeOfItems(_, _, _)
RECURSIVE TreeOfElems(_, _, _)
TreeOfItems(items, i, path_prefix) ==
    IF i > Len(items) THEN <<>>
    ELSE LET node_path == ChildPath(path_prefix, items[i].key)
         IN <<node_path>> \o build_tree_nodes(items[i].val, node_path)
            \o TreeOfItems(items, i + 1, path_prefix)
TreeOfElems(elems, i, path_prefix) ==
    IF i > Len(elems) THEN <<>>
    ELSE LET node_path == IndexPath(path_prefix, i - 1)
         IN <<node_path>> \o build_tree_nodes(elems[i], node_path)
            \o TreeOfElems(elems, i + 1, path_prefix)
build_tree_nodes(data, path_prefix) ==
    IF IsDict(data) THEN TreeOfItems(data.v, 1, path_prefix)
    ELSE IF IsList(data) THEN TreeOfElems(data.v, 1, path_prefix)
    ELSE <<>>

\* A rendered scalar row: the ttk.Entry with its full_path, the text it shows,
\* its background, and the label beside it.
DefaultBg == "default"
Entry(path, label, text) ==
    [full_path |-> path, label |-> label, text |-> text, bg |-> DefaultBg]

\* The entries build_nested_frame creates, in creation order (the order in
\* which winfo_children walks them). key_name <<>> is the absent key name.
RECURSIVE build_nested_frame(_, _, _)
RECURSIVE FrameOfItems(_, _, _)
RECURSIVE FrameOfElems(_, _, _)
FrameOfItems(items, i, path_prefix) ==
    IF i > Len(items) THEN <<>>
    ELSE build_nested_frame(items[i].val, items[i].key,
                            ChildPath(path_prefix, items[i].key))
         \o FrameOfItems(items, i + 1, path_prefix)
FrameOfElems(elems, i, path_prefix) ==
    IF i > Len(elems) THEN <<>>
    ELSE build_nested_frame(elems[i], IndexLabel(i - 1), IndexPath(path_prefix, i - 1))
         \o FrameOfElems(elems, i + 1, path_prefix)
build_nested_frame(data, key_name, path_prefix) ==
    IF IsDict(data) THEN FrameOfItems(data.v, 1, path_prefix)
    ELSE IF IsList(data) THEN FrameOfElems(data.v, 1, path_prefix)
    ELSE LET display_key == IF key_name # <<>> THEN key_name ELSE PyStr(data)
         IN <<Entry(path_prefix, display_key \o <<":">>, PyStr(data))>>

----------------------------------------------------------------------------
(* The files the dialog can return *)

DocA ==
    JObj(<<KV(<<"c">>, JObj(<<KV(<<"x">>, JStr(<<"A", "b">>)),
                              KV(<<"y">>, JArr(<<JBool(TRUE), JNull>>))>>)),
           KV(<<"b">>, JNull),
           KV(<<"a">>, JNum(1))>>)
DocB ==
    JObj(<<KV(<<"d">>, JArr(<<JNum(1)>>)),
           KV(<<"c">>, JObj(<<KV(<<"x">>, JStr(<<"B">>)),
                              KV(<<"y">>, JArr(<<JBool(FALSE)>>))>>)),
           KV(<<"a">>, JNum(2))>>)
DocC ==
    JObj(<<KV(<<"s">>, JObj(<<KV(<<"a", ".", "b">>, JNum(1)),
                              KV(<<"a">>, JObj(<<KV(<<"b">>, JNum(2))>>))>>)),
           KV(<<"t">>, JNum(1))>>)

PathA == <<"d", "/", "a">>
PathB == <<"d", "/", "b">>
PathC == <<"d", "/", "c">>
PathBad == <<"d", "/", "x">>

\* open(path) + json.load(f): the parsed document, or the exception raised
\* (a missing file, or text that is not JSON).
ReadJson(path) ==
    CASE path = PathA -> [ok |-> TRUE, data |-> DocA]
      [] path = PathB -> [ok |-> TRUE, data |-> DocB]
      [] path = PathC -> [ok |-> TRUE, data |-> DocC]
      [] OTHER -> [ok |-> FALSE, data |-> JNull]

\* What filedialog.askopenfilenames can return.
Batches ==
    { <<>>, <<PathA>>, <<PathC>>, <<PathA, PathB>>, <<PathA, PathA>>,
      <<PathA, PathBad>>, <<PathA, PathB, PathC>> }

\* What the user can type in the search box.
Queries ==
    { <<>>, <<" ">>, <<"A", "b", " ">>, <<"1">> }

----------------------------------------------------------------------------
(* State after JSONVisualizerApp.__init__ *)

NoFocus == [tab |-> <<>>, idx |-> 0, path |-> <<>>]
NoHeatmap == [keys |-> <<>>, cols |-> <<>>, matrix |-> <<>>, colors |-> <<>>]
Ran(op, arg, ok) == [op |-> op, arg |-> arg, ok |-> ok, paths |-> <<>>]

AppInit ==
    /\ files = <<>>
    /\ current_tabs = <<>>
    /\ search_results = <<>>
    /\ all_entries = <<>>
    /\ tree_paths = <<>>
    /\ tab_json = <<>>
    /\ tab_frames = <<>>
    /\ tab_initialized = {}
    /\ notebook = <<>>
    /\ selected = 0
    /\ results_listbox = <<>>
    /\ search_var = <<>>
    /\ focus = NoFocus
    /\ diff_text = ""
    /\ heatmap = NoHeatmap
    /\ error_shown = <<>>
    /\ idle_pending = FALSE
    /\ last = Ran("init", 0, TRUE)

DiffIdle ==
    /\ a = JNull
    /\ b = JNull
    /\ score = -1
    /\ rscore = -1
    /\ base = -1
    /\ dpc = "idle"

----------------------------------------------------------------------------
(* Heatmap *)

Min(m, n) == IF m <= n THEN m ELSE n

RECURSIVE SeqMax(_, _)
SeqMax(row, i) == IF i > Len(row) THEN 0 ELSE Max(row[i], SeqMax(row, i + 1))
RECURSIVE MatrixMax(_, _)
MatrixMax(matrix, r) ==
    IF r > Len(matrix) THEN 0 ELSE Max(SeqMax(matrix[r], 1), MatrixMax(matrix, r + 1))

\* sorted({k for f in self.files for k in f["data"].keys()})
HeatKeysUnsorted(fs) ==
    LET RECURSIVE Walk(_, _)
        Walk(i, seen) ==
            IF i > Len(fs) THEN <<>>
            ELSE LET new == SelectSeq([j \in DOMAIN fs[i].data.v |-> fs[i].data.v[j].key],
                                      LAMBDA k : k \notin seen)
                 IN new \o Walk(i + 1, seen \cup KeySet(fs[i].data))
    IN Walk(1, {})
HeatKeys(fs) == Sorted(UNION {KeySet(fs[i].data) : i \in DOMAIN fs})

\* One row of the matrix: the score of every file after the first.
HeatRow(fs, key) ==
    [j \in 1..(Len(fs) - 1) |->
        diff_count(DictGet(fs[1].data, key), DictGet(fs[j + 1].data, key))]

\* int(min(score / max_score, 1) * 255) if max_score else 0.  For the integer
\* scores of the matrix the float expression truncates to the integer
\* quotient 255 * min(score, max_score) div max_score.
IntensityInverted(s, max_score) ==
    IF max_score # 0 THEN 255 - (255 * Min(s, max_score)) \div max_score ELSE 0
Intensity(s, max_score) ==
    IF max_score # 0 THEN (255 * Min(s, max_score)) \div max_score ELSE 0

\* f"#{red:02x}{green_blue:02x}{green_blue:02x}" as its three components
Color(intensity) == <<255, 255 - intensity, 255 - intensity>>

\* The Toplevel display_heatmap builds: row labels, column labels, the score
\* matrix and the colour of every cell.
display_heatmap(fs) ==
    LET keys == HeatKeys(fs)
        matrix == [r \in DOMAIN keys |-> HeatRow(fs, keys[r])]
        max_score == MatrixMax(matrix, 1)
    IN [keys |-> keys,
        cols |-> [j \in 1..(Len(fs) - 1) |-> fs[j + 1].name],
        matrix |-> matrix,
        colors |-> [r \in DOMAIN keys |->
                      [c \in DOMAIN matrix[r] |->
                         Color(Intensity(matrix[r][c], max_score))]]]

----------------------------------------------------------------------------
(* Handlers *)

\* current_tabs is a dict in insertion order: key -> the panel's entries.
TabKeys(ct) == [i \in DOMAIN ct |-> ct[i].key]
Panel(ct, key) == ct[IndexOf(TabKeys(ct), key) + 1].entries
FrameKeys == {tab_frames[i].key : i \in DOMAIN tab_frames}
JsonKeys == {tab_json[i].key : i \in DOMAIN tab_json}

\* The section on_tab_changed builds a panel for when tab sel is the selected
\* one, or <<>> when it returns early (an empty notebook raises TclError in
\* select()/tab() before anything is changed).
Builds(sel) ==
    sel \in DOMAIN notebook
    /\ notebook[sel] \notin tab_initialized
    /\ notebook[sel] \in FrameKeys
    /\ notebook[sel] \in JsonKeys
    /\ ~IsNone(DictGet(JObj(tab_json), notebook[sel]))

\* on_tab_changed with tab sel selected
on_tab_changed(sel) ==
    IF Builds(sel)
    THEN LET key == notebook[sel]
             entries == build_nested_frame(DictGet(JObj(tab_json), key), <<>>, key)
         IN /\ current_tabs' =
                  IF key \in {current_tabs[i].key : i \in DOMAIN current_tabs}
                  THEN [i \in DOMAIN current_tabs |->
                          IF current_tabs[i].key = key
                          THEN [key |-> key, entries |-> entries]
                          ELSE current_tabs[i]]
                  ELSE Append(current_tabs, [key |-> key, entries |-> entries])
            /\ all_entries' =
                  all_entries \o [i \in DOMAIN entries |-> [tab |-> key, idx |-> i]]
            /\ tab_frames' = [i \in DOMAIN tab_frames |->
                                IF tab_frames[i].key = key
                                THEN [key |-> key, content |-> "panel"]
                                ELSE tab_frames[i]]
            /\ tab_initialized' = tab_initialized \cup {key}
    ELSE UNCHANGED <<current_tabs, all_entries, tab_frames, tab_initialized>>

\* query in value or query in path.lower()
MatchesCaseSensitive(e, query) ==
    Contains(query, e.text) \/ Contains(query, LowerStr(e.full_path))
MatchesValueOnly(e, query) == Contains(query, LowerStr(e.text))
Matches(e, query) ==
    Contains(query, LowerStr(e.text)) \/ Contains(query, LowerStr(e.full_path))

\* search_in_widget over one panel: the (tab_key, path) pairs appended
SearchPanel(tab, query) ==
    LET hits == SelectSeq(tab.entries, LAMBDA e : Matches(e, query))
    IN [i \in DOMAIN hits |-> <<tab.key, hits[i].full_path>>]

RECURSIVE SearchTabs(_, _, _)
SearchTabs(ct, i, query) ==
    IF i > Len(ct) THEN <<>>
    ELSE SearchPanel(ct[i], query) \o SearchTabs(ct, i + 1, query)

\* f"{tab_key}: {path}"
ResultLine(r) == r[1] \o <<":", " ">> \o r[2]

\* The loop of load_files: the files appended before the first failure, and
\* the path that failed (<<>> when every file loaded).
RECURSIVE ReadAll(_, _, _)
ReadAll(file_paths, i, acc) ==
    IF i > Len(file_paths) THEN [files |-> acc, failed |-> <<>>]
    ELSE LET r == ReadJson(file_paths[i])
         IN IF r.ok
            THEN ReadAll(file_paths, i + 1,
                         Append(acc, [name |-> Basename(file_paths[i]), data |-> r.data]))
            ELSE [files |-> acc, failed |-> file_paths[i]]

\* display_tabs: the tree_paths it records, one root per section followed by
\* the nodes below it.
RECURSIVE SectionTree(_, _)
SectionTree(items, i) ==
    IF i > Len(items) THEN <<>>
    ELSE <<items[i].key>> \o build_tree_nodes(items[i].val, items[i].key)
         \o SectionTree(items, i + 1)

\* f"Compare: {compare_name}"
CompareTab(name) == <<"C", "o", "m", "p", "a", "r", "e", ":", " ">> \o name

\* The try/except of display_comparison: the text inserted in the diff tab,
\* and whether an exception leaves the method (none does: every Exception is
\* caught and replaced by the placeholder text).
display_comparison_uncaught(diff_ok) ==
    [text |-> IF diff_ok THEN "delta" ELSE "", raised |-> ~diff_ok]
display_comparison(diff_ok) ==
    [text |-> IF diff_ok THEN "delta" ELSE "placeholder", raised |-> FALSE]

\* load_files with the dialog returning file_paths; diff_ok tells whether
\* jsondiff is importable and diff() returns.
load_files(file_paths, diff_ok) ==
    IF file_paths = <<>>
    THEN /\ last' = Ran("load_files", 0, FALSE)
         /\ UNCHANGED <<files, current_tabs, search_results, all_entries, tree_paths,
                        tab_json, tab_frames, tab_initialized, notebook, selected,
                        results_listbox, search_var, focus, diff_text, heatmap,
                        error_shown, idle_pending>>
    ELSE LET r == ReadAll(file_paths, 1, <<>>)
         IN /\ files' = r.files
            /\ current_tabs' = <<>>
            /\ all_entries' = <<>>
            /\ results_listbox' = <<>>
            /\ search_var' = <<>>
            /\ search_results' = <<>>
            /\ error_shown' = r.failed
            /\ focus' = NoFocus
            /\ IF r.failed # <<>>
               THEN \* messagebox.showerror and return, before update_view
                    /\ tree_paths' = <<>>
                    /\ notebook' = <<>>
                    /\ selected' = 0
                    /\ diff_text' = ""
                    /\ last' = [Ran("load_files", Len(file_paths), FALSE)
                                   EXCEPT !.paths = file_paths]
                    /\ UNCHANGED <<tab_json, tab_frames, tab_initialized, heatmap,
                                   idle_pending>>
               ELSE \* update_view: display_tabs, then for two or more files
                    \* display_comparison and display_heatmap
                    \* (an exception leaving display_comparison would end
                    \* update_view before display_heatmap)
                    LET data == r.files[1].data
                        many == Len(r.files) >= 2
                        cmp == display_comparison(diff_ok)
                        done == ~many \/ ~cmp.raised
                    IN /\ tab_json' = data.v
                       /\ tab_frames' = [i \in DOMAIN data.v |->
                                           [key |-> data.v[i].key, content |-> "placeholder"]]
                       /\ tab_initialized' = {}
                       /\ tree_paths' = SectionTree(data.v, 1)
                       /\ notebook' =
                             [i \in DOMAIN data.v |-> data.v[i].key]
                             \o (IF many THEN <<CompareTab(r.files[2].name)>> ELSE <<>>)
                       /\ selected' = IF notebook' = <<>> THEN 0 ELSE 1
                       /\ idle_pending' = TRUE
                       /\ diff_text' = IF many THEN cmp.text ELSE ""
                       /\ heatmap' = IF many /\ done THEN display_heatmap(r.files)
                                     ELSE heatmap
                       /\ last' = [Ran("load_files", Len(file_paths), done)
                                      EXCEPT !.paths = file_paths]

LoadFiles ==
    /\ ~idle_pending
    /\ \E file_paths \in Batches, diff_ok \in BOOLEAN :
          /\ (diff_ok \/ Len(file_paths) >= 2)
          /\ load_files(file_paths, diff_ok)
    /\ UNCHANGED diffVars

\* The callback _init_first queued by display_tabs (root.after_idle): it runs
\* on_tab_changed for the tab the notebook selected, before further input.
InitFirst ==
    /\ idle_pending
    /\ idle_pending' = FALSE
    /\ on_tab_changed(selected)
    /\ last' = Ran("_init_first", selected, TRUE)
    /\ UNCHANGED <<files, search_results, tree_paths, tab_json, notebook, selected,
                   results_listbox, search_var, focus, diff_text, heatmap, error_shown>>
    /\ UNCHANGED diffVars

\* The user picks tab sel of the notebook: <<NotebookTabChanged>>.
TabChanged ==
    /\ ~idle_pending
    /\ \E sel \in DOMAIN notebook :
          /\ sel # selected
          /\ selected' = sel
          /\ on_tab_changed(sel)
          /\ last' = Ran("on_tab_changed", sel, TRUE)
    /\ UNCHANGED <<files, search_results, tree_paths, tab_json, notebook,
                   results_listbox, search_var, focus, diff_text, heatmap, error_shown, idle_pending>>
    /\ UNCHANGED diffVars

\* for ent in self.all_entries: ent.config(background=ent.default_bg)
ResetBgSkipped(ct, refs) == ct
ResetBg(ct, refs) ==
    LET listed == {refs[i] : i \in DOMAIN refs}
    IN [i \in DOMAIN ct |->
          [key |-> ct[i].key,
           entries |-> [j \in DOMAIN ct[i].entries |->
                          IF [tab |-> ct[i].key, idx |-> j] \in listed
                          THEN [ct[i].entries[j] EXCEPT !.bg = DefaultBg]
                          ELSE ct[i].entries[j]]]]

\* widget.config(background="yellow") on every entry search_in_widget matches
Highlight(ct, query) ==
    [i \in DOMAIN ct |->
       [key |-> ct[i].key,
        entries |-> [j \in DOMAIN ct[i].entries |->
                       IF Matches(ct[i].entries[j], query)
                       THEN [ct[i].entries[j] EXCEPT !.bg = "yellow"]
                       ELSE ct[i].entries[j]]]]

\* self.search_var.get().strip().lower()
QueryOf(text) == LowerStr(Strip(text))

\* perform_search with text typed in the search box
perform_search(text) ==
    LET query == QueryOf(text)
        cleared == ResetBg(current_tabs, all_entries)
    IN /\ search_var' = text
       /\ IF query = <<>>
          THEN /\ current_tabs' = cleared
               /\ search_results' = <<>>
               /\ results_listbox' = <<>>
          ELSE /\ current_tabs' = Highlight(cleared, query)
               /\ search_results' = SearchTabs(cleared, 1, query)
               /\ results_listbox' =
                     [i \in DOMAIN search_results' |-> ResultLine(search_results'[i])]
       /\ last' = Ran("perform_search", 0, query # <<>>)

PerformSearch ==
    /\ ~idle_pending
    /\ \E text \in Queries : perform_search(text)
    /\ UNCHANGED <<files, all_entries, tree_paths, tab_json, tab_frames,
                   tab_initialized, notebook, selected, focus, diff_text, heatmap,
                   error_shown, idle_pending>>
    /\ UNCHANGED diffVars

\* find_widget_by_path over a panel: the first entry carrying the path, 0 if none
FindWidgetByPath(entries, path) ==
    IF \E j \in DOMAIN entries : entries[j].full_path = path
    THEN CHOOSE j \in DOMAIN entries :
            /\ entries[j].full_path = path
            /\ \A h \in 1..(j - 1) : entries[h].full_path # path
    ELSE 0

\* scroll_to_path: the entry found is scrolled to and takes the focus
scroll_to_path(tab_key, entries, path) ==
    LET j == FindWidgetByPath(entries, path)
    IN IF j # 0 THEN focus' = [tab |-> tab_key, idx |-> j, path |-> path]
       ELSE UNCHANGED focus

\* notebook.select(tab_index): the notebook position handed to select() is the
\* position of tab_key among the keys of current_tabs.
TabIndex(tab_key) == IndexOf(TabKeys(current_tabs), tab_key)

\* on_result_select with row idx of the results listbox selected
on_result_select(idx) ==
    LET tab_key == search_results[idx][1]
        path == search_results[idx][2]
    IN /\ selected' = TabIndex(tab_key) + 1
       /\ scroll_to_path(tab_key, Panel(current_tabs, tab_key), path)
       /\ IF selected' # selected THEN on_tab_changed(selected')
          ELSE UNCHANGED <<current_tabs, all_entries, tab_frames, tab_initialized>>
       /\ last' = Ran("on_result_select", idx, TRUE)

ResultSelect ==
    /\ ~idle_pending
    /\ search_results # <<>>
    /\ \E idx \in DOMAIN results_listbox : on_result_select(idx)
    /\ UNCHANGED <<files, search_results, tree_paths, tab_json, notebook,
                   results_listbox, search_var, diff_text, heatmap, error_shown, idle_pending>>
    /\ UNCHANGED diffVars

\* path.split(".")[0].split("[")[0]
SectionOfPath(path) == SplitFirst(SplitFirst(path, "."), "[")

\* on_tree_select with tree item `item` selected
on_tree_select(item) ==
    LET path == tree_paths[item]
        tab_key == SectionOfPath(path)
    IN IF path = <<>> \/ tab_key \notin {current_tabs[i].key : i \in DOMAIN current_tabs}
       THEN /\ last' = Ran("on_tree_select", item, FALSE)
            /\ UNCHANGED <<selected, focus, current_tabs, all_entries, tab_frames,
                           tab_initialized>>
       ELSE /\ selected' = TabIndex(tab_key) + 1
            /\ IF tab_key \notin tab_initialized \/ selected' # selected
               THEN on_tab_changed(selected')
               ELSE UNCHANGED <<current_tabs, all_entries, tab_frames, tab_initialized>>
            /\ scroll_to_path(tab_key, Panel(current_tabs, tab_key), path)
            /\ last' = Ran("on_tree_select", item, TRUE)

TreeSelect ==
    /\ ~idle_pending
    /\ \E item \in DOMAIN tree_paths : on_tree_select(item)
    /\ UNCHANGED <<files, search_results, tree_paths, tab_json, notebook,
                   results_listbox, search_var, diff_text, heatmap, error_shown, idle_pending>>
    /\ UNCHANGED diffVars

Init == AppInit /\ DiffIdle
Next == LoadFiles \/ InitFirst \/ TabChanged \/ PerformSearch \/ ResultSelect \/ TreeSelect
Spec == Init /\ [][Next]_vars

----------------------------------------------------------------------------
(* diff_count applied to drawn values *)

InitDiff ==
    /\ AppInit
    /\ a \in JsonValues
    /\ b \in JsonValues
    /\ score = -1
    /\ rscore = -1
    /\ base = -1
    /\ dpc = "drawn"

\* diff_count(a, b) and diff_count(b, a) are computed.
Score ==
    /\ dpc \in {"drawn", "changed"}
    /\ score' = diff_count(a, b)
    /\ rscore' = diff_count(b, a)
    /\ dpc' = IF dpc = "drawn" THEN "scored" ELSE "rescored"
    /\ UNCHANGED <<a, b, base>>
    /\ UNCHANGED appVars

\* One leaf scalar of b that agrees with a is changed to a different scalar.
ChangeLeaf ==
    /\ dpc = "scored"
    /\ \E p \in Leaves(b), s \in Scalars :
          /\ p \in Leaves(a)
          /\ LeafAt(a, p) = LeafAt(b, p)
          /\ s # LeafAt(b, p)
          /\ b' = SetLeaf(b, p, s)
    /\ base' = score
    /\ dpc' = "changed"
    /\ UNCHANGED <<a, score, rscore>>
    /\ UNCHANGED appVars

NextDiff == Score \/ ChangeLeaf
SpecDiff == InitDiff /\ [][NextDiff]_vars

----------------------------------------------------------------------------
(* Properties *)

NoDuplicates(seq) == \A i, j \in DOMAIN seq : i # j => seq[i] # seq[j]

\* Every rendered scalar field, as <<section, entry>>, in the order the
\* sections were realized and the entries were created.
RECURSIVE RenderedFields(_, _)
RenderedFields(ct, i) ==
    IF i > Len(ct) THEN <<>>
    ELSE [j \in DOMAIN ct[i].entries |-> <<ct[i].key, ct[i].entries[j]>>]
         \o RenderedFields(ct, i + 1)

\* The fields whose displayed text or path contains q, ignoring case, as
\* (section, path) pairs.
FieldsContaining(q) ==
    LET hits == SelectSeq(RenderedFields(current_tabs, 1),
                          LAMBDA f : \/ Contains(q, LowerStr(f[2].text))
                                     \/ Contains(q, LowerStr(f[2].full_path)))
    IN [i \in DOMAIN hits |-> <<hits[i][1], hits[i][2].full_path>>]

HighlightedExactly(q) ==
    \A i \in DOMAIN current_tabs : \A j \in DOMAIN current_tabs[i].entries :
        LET e == current_tabs[i].entries[j]
        IN (e.bg = "yellow") <=>
              (Contains(q, LowerStr(e.text)) \/ Contains(q, LowerStr(e.full_path)))

FailedLoad(l) == l.op = "load_files" /\ ~l.ok /\ l.arg > 0
LoadedOk(l) == l.op = "load_files" /\ l.ok

\* C1: a batch load in which a file fails to read or parse commits nothing:
\* the file list, the tabs, the tree and the search state are what they were
\* before the load.
C1_FailedLoadCommitsNothing ==
    [][FailedLoad(last') =>
          /\ files' = files
          /\ notebook' = notebook
          /\ current_tabs' = current_tabs
          /\ tree_paths' = tree_paths
          /\ search_results' = search_results
          /\ search_var' = search_var]_vars

\* C2: selecting a search result makes the tab of the result's section the
\* active notebook tab and focuses the field carrying the result's path.
C2_ResultSelectActivatesItsTab ==
    last.op = "on_result_select" =>
        /\ notebook[selected] = search_results[last.arg][1]
        /\ focus.tab = search_results[last.arg][1]
        /\ focus.path = search_results[last.arg][2]

\* C3: no two nodes of the navigation tree share a path, and no two rendered
\* fields share a path.
C3_PathsUnique ==
    /\ NoDuplicates(tree_paths)
    /\ NoDuplicates([i \in DOMAIN RenderedFields(current_tabs, 1) |->
                        RenderedFields(current_tabs, 1)[i][2].full_path])

\* C4: once the tab of a section of the base document has been activated, the
\* section is realized and its panel is built, whatever the section's value.
C4_ActivationRealizes ==
    (last.op = "on_tab_changed" /\ notebook[selected] \in JsonKeys) =>
        /\ notebook[selected] \in tab_initialized
        /\ notebook[selected] \in {current_tabs[i].key : i \in DOMAIN current_tabs}

\* C5: a value scored against itself scores 0.
C5_SelfScoreZero == (dpc = "scored" /\ a = b) => score = 0

C5_Witness ==
    /\ dpc = "scored"
    /\ a = JObj(<<KV(<<"x">>, JArr(<<JNull, JNum(1)>>))>>)
    /\ b = a
    /\ score = 0

\* C6: the score does not depend on the order of its two arguments.
C6_Symmetric == dpc \in {"scored", "rescored"} => score = rscore

C6_Witness ==
    /\ dpc = "scored"
    /\ IsNone(a)
    /\ b = JObj(<<KV(<<"x">>, JNum(1)), KV(<<"y">>, JNum(0))>>)
    /\ score = 1
    /\ rscore = 1

\* C7: changing one leaf scalar of b that agreed with a, to a different scalar,
\* raises diff_count(a, b) by exactly 1 (from 0 to 1 when b was a itself).
C7_LeafChangeAddsOne ==
    (dpc = "rescored" /\ IsDict(a) /\ IsDict(b)) => score = base + 1

\* C8: after a load of two or more files the heatmap has one row per section
\* key of any file, in ascending key order, one column per file after the
\* first in load order, and each cell is the diff score of the section in the
\* first file against the section in the column's file (absent taken as null).
C8_HeatmapGrid ==
    (LoadedOk(last) /\ Len(files) >= 2) =>
        LET keys == heatmap.keys
            matrix == heatmap.matrix
        IN /\ {keys[r] : r \in DOMAIN keys} =
                 UNION {KeySet(files[i].data) : i \in DOMAIN files}
           /\ \A r, q \in DOMAIN keys : r < q => StrLess(keys[r], keys[q])
           /\ DOMAIN matrix = DOMAIN keys
           /\ DOMAIN heatmap.cols = 1..(Len(files) - 1)
           /\ \A c \in DOMAIN heatmap.cols : heatmap.cols[c] = files[c + 1].name
           /\ \A r \in DOMAIN matrix :
                 /\ DOMAIN matrix[r] = 1..(Len(files) - 1)
                 /\ \A c \in DOMAIN matrix[r] :
                       matrix[r][c] = diff_count(DictGet(files[1].data, keys[r]),
                                                 DictGet(files[c + 1].data, keys[r]))

C8_Witness ==
    /\ LoadedOk(last)
    /\ Len(files) = 3
    /\ heatmap.keys = <<<<"a">>, <<"b">>, <<"c">>, <<"d">>, <<"s">>, <<"t">>>>
    /\ heatmap.cols = <<<<"b">>, <<"c">>>>
    /\ heatmap.matrix = <<<<1, 1>>, <<0, 0>>, <<2, 1>>, <<1, 0>>, <<0, 1>>, <<0, 1>>>>

\* C9: every cell is coloured <<255, 255 - i, 255 - i>> with intensity i in
\* 0..255: 0 everywhere when the largest score is 0, otherwise the integer part
\* of 255 * score / max, so 0 for a score of 0, 255 for the largest score, and
\* never lower for a higher score.
C9_Colouring ==
    heatmap # NoHeatmap =>
        LET matrix == heatmap.matrix
            max_score == MatrixMax(matrix, 1)
            I(r, c) == 255 - heatmap.colors[r][c][2]
        IN \A r \in DOMAIN matrix : \A c \in DOMAIN matrix[r] :
              /\ heatmap.colors[r][c] = <<255, 255 - I(r, c), 255 - I(r, c)>>
              /\ I(r, c) \in 0..255
              /\ (max_score = 0 => I(r, c) = 0)
              /\ (max_score > 0 => I(r, c) = (255 * matrix[r][c]) \div max_score)
              /\ (matrix[r][c] = 0 => I(r, c) = 0)
              /\ ((max_score > 0 /\ matrix[r][c] = max_score) => I(r, c) = 255)
              /\ \A r2 \in DOMAIN matrix : \A c2 \in DOMAIN matrix[r2] :
                    matrix[r][c] <= matrix[r2][c2] => I(r, c) <= I(r2, c2)

C9_Witness ==
    /\ heatmap.matrix = <<<<1>>, <<0>>, <<2>>, <<1>>>>
    /\ heatmap.colors = <<<<(<<255, 128, 128>>)>>, <<(<<255, 255, 255>>)>>,
                          <<(<<255, 0, 0>>)>>, <<(<<255, 128, 128>>)>>>>

\* C10 as stated: for a non-empty query the results are exactly the rendered
\* fields of the realized sections whose text or path contains the query,
\* ignoring case, in traversal order, and exactly those are highlighted.
C10_QueryAsTyped ==
    (last.op = "perform_search" /\ search_var # <<>>) =>
        /\ search_results = FieldsContaining(LowerStr(search_var))
        /\ HighlightedExactly(LowerStr(search_var))

\* C10 amended: the query is the typed text with leading and trailing blanks
\* stripped; when that is non-empty the results are exactly the rendered fields
\* of the realized sections whose text or path contains it, ignoring case, in
\* traversal order, all from realized sections, and exactly those are
\* highlighted.
C10_StrippedQuery ==
    (last.op = "perform_search" /\ Strip(search_var) # <<>>) =>
        /\ search_results = FieldsContaining(LowerStr(Strip(search_var)))
        /\ HighlightedExactly(LowerStr(Strip(search_var)))
        /\ \A i \in DOMAIN search_results : search_results[i][1] \in tab_initialized

C10_Witness ==
    /\ last.op = "perform_search"
    /\ search_var = <<"1">>
    /\ tab_initialized = {<<"c">>, <<"a">>}
    /\ <<"b">> \in JsonKeys
    /\ search_results = << << <<"c">>, <<"c", ".", "y", "[", "1", "]">> >>,
                           << <<"a">>, <<"a">> >> >>

\* The rendered fields whose displayed text contains q, and those whose path
\* contains q, ignoring case.
ValueHits(q) ==
    SelectSeq(RenderedFields(current_tabs, 1),
              LAMBDA f : Contains(q, LowerStr(f[2].text)))
PathHits(q) ==
    SelectSeq(RenderedFields(current_tabs, 1),
              LAMBDA f : Contains(q, LowerStr(f[2].full_path)))

\* C11: a query that is a substring of the displayed value of exactly one
\* rendered scalar field returns exactly one search result, whose section and
\* path are those of that field.
C11_OneValueOneResult ==
    LET q == LowerStr(Strip(search_var))
    IN (last.op = "perform_search" /\ q # <<>> /\ Len(ValueHits(q)) = 1) =>
          search_results = << <<ValueHits(q)[1][1], ValueHits(q)[1][2].full_path>> >>

\* C11 amended: a query that, stripped and ignoring case, is a substring of the
\* displayed value of exactly one rendered field and of the path of no other
\* rendered field returns exactly one search result, whose section and path
\* are those of that field.
C11_OneValueNoOtherPath ==
    LET q == LowerStr(Strip(search_var))
    IN (/\ last.op = "perform_search" /\ q # <<>>
        /\ Len(ValueHits(q)) = 1
        /\ \A i \in DOMAIN PathHits(q) : PathHits(q)[i] = ValueHits(q)[1]) =>
          search_results = << <<ValueHits(q)[1][1], ValueHits(q)[1][2].full_path>> >>

C11_Witness ==
    /\ last.op = "perform_search"
    /\ search_var = <<"A", "b", " ">>
    /\ tab_initialized = {<<"c">>, <<"a">>}
    /\ Len(ValueHits(<<"a", "b">>)) = 1
    /\ search_results = << << <<"c">>, <<"c", ".", "x">> >> >>

\* C12: after a search whose query is empty or only whitespace, whatever the
\* state before it (search results and highlights included), the result list
\* is empty and no rendered field is highlighted.
C12_BlankQueryClears ==
    (last.op = "perform_search" /\ Strip(search_var) = <<>>) =>
        /\ search_results = <<>>
        /\ results_listbox = <<>>
        /\ \A i \in DOMAIN current_tabs : \A j \in DOMAIN current_tabs[i].entries :
              current_tabs[i].entries[j].bg = DefaultBg

C12_Witness ==
    /\ last.op = "perform_search"
    /\ search_var = <<" ">>
    /\ ~last.ok
    /\ Len(current_tabs) = 2
    /\ Len(RenderedFields(current_tabs, 1)) = 4
    /\ search_results = <<>>

\* C13: what a successful load shows depends only on the number of files. With
\* one file: one tab and one tree root per top-level section of that file, no
\* diff tab and no heatmap. With two or more: the section tabs and the tree of
\* the first file, one diff tab comparing the first and second file, and a
\* heatmap of these files.
C13_ShownByFileCount ==
    LoadedOk(last) =>
        LET first == files[1].data.v
            sections == [i \in DOMAIN first |-> first[i].key]
        IN /\ tree_paths = SectionTree(first, 1)
           /\ IF Len(files) = 1
              THEN /\ notebook = sections
                   /\ diff_text = ""
                   /\ heatmap = NoHeatmap
              ELSE /\ notebook = sections \o <<CompareTab(files[2].name)>>
                   /\ diff_text # ""
                   /\ heatmap = display_heatmap(files)

AllReadable(paths) == \A i \in DOMAIN paths : ReadJson(paths[i]).ok

\* C14: when a load of two or more readable files gets no diff from the
\* structural-diff collaborator (it is missing or it raises), the diff tab
\* shows the fixed placeholder text, no error is reported, and the load
\* completes: the section tabs, the tree, the search state and the heatmap are
\* the ones the loaded files determine, as with a working collaborator.
C14_DiffFailureHarmless ==
    (/\ last.op = "load_files"
     /\ Len(last.paths) >= 2 /\ AllReadable(last.paths)
     /\ diff_text # "delta") =>
        LET first == files[1].data.v
            sections == [i \in DOMAIN first |-> first[i].key]
        IN /\ last.ok
           /\ diff_text = "placeholder"
           /\ error_shown = <<>>
           /\ Len(files) = Len(last.paths)
           /\ notebook = sections \o <<CompareTab(files[2].name)>>
           /\ tree_paths = SectionTree(first, 1)
           /\ tab_json = first
           /\ current_tabs = <<>> /\ all_entries = <<>> /\ search_results = <<>>
           /\ heatmap = display_heatmap(files)

C14_Witness ==
    /\ last.op = "load_files"
    /\ last.paths = <<PathA, PathB, PathC>>
    /\ diff_text = "placeholder"
    /\ error_shown = <<>>
    /\ Len(notebook) = 4
    /\ Len(heatmap.cols) = 2

\* C15: after every successful load, whatever loads, tab activations and
\* searches came before, the state reflects the new files only: the file list
\* holds the newly loaded files in selection order, the tabs and the tree
\* paths are those of the new base document, and the realized-section set, the
\* rendered-field registry, the search results and the query are empty.
C15_LoadReplacesState ==
    LoadedOk(last) =>
        LET first == files[1].data.v
            sections == [i \in DOMAIN first |-> first[i].key]
        IN /\ Len(files) = Len(last.paths)
           /\ \A i \in DOMAIN files :
                 /\ last.paths[i] = <<"d", "/">> \o files[i].name
                 /\ files[i].data = ReadJson(last.paths[i]).data
           /\ tab_json = first
           /\ SubSeq(notebook, 1, Len(first)) = sections
           /\ Len(notebook) = Len(first) + (IF Len(files) >= 2 THEN 1 ELSE 0)
           /\ [i \in DOMAIN tab_frames |-> tab_frames[i].key] = sections
           /\ tree_paths = SectionTree(first, 1)
           /\ tab_initialized = {}
           /\ current_tabs = <<>>
           /\ all_entries = <<>>
           /\ search_results = <<>>
           /\ results_listbox = <<>>
           /\ search_var = <<>>

\* A successful load of d/c alone while the heatmap of an earlier load of two
\* or more files is still open.
C15_Witness ==
    /\ LoadedOk(last)
    /\ last.paths = <<PathC>>
    /\ files = <<[name |-> <<"c">>, data |-> DocC]>>
    /\ heatmap # NoHeatmap
    /\ notebook = << <<"s">>, <<"t">> >>
    /\ tab_initialized = {}

\* The section each node of the tree belongs to, in the order of tree_paths.
RECURSIVE TreeSections(_, _)
TreeSections(items, i) ==
    IF i > Len(items) THEN <<>>
    ELSE [j \in 1..(1 + Len(build_tree_nodes(items[i].val, items[i].key))) |->
             items[i].key]
         \o TreeSections(items, i + 1)

\* C16: selecting any node of the navigation tree, in any state after a
\* successful load and whatever tabs were activated before, activates the tab
\* of the section the node belongs to, realizes that section if it was not
\* realized, and focuses the rendered field carrying the node's path when the
\* node is a scalar leaf. (Stated for sections whose value is not null.)
C16_TreeSelectActivatesSection ==
    last.op = "on_tree_select" =>
        LET section == TreeSections(tab_json, 1)[last.arg]
            path == tree_paths[last.arg]
        IN ~IsNone(DictGet(JObj(tab_json), section)) =>
              /\ notebook[selected] = section
              /\ section \in tab_initialized
              /\ section \in {current_tabs[i].key : i \in DOMAIN current_tabs}
              /\ \A i \in DOMAIN current_tabs : \A j \in DOMAIN current_tabs[i].entries :
                    (current_tabs[i].key = section
                     /\ current_tabs[i].entries[j].full_path = path)
                    => (focus.tab = section /\ focus.path = path)

\* C17: in every reachable state the lazy-initialization bookkeeping is
\* consistent: the set of realized sections equals the key set of the built
\* panels, both are subsets of the sections of the displayed base document,
\* and every search result names a section with a built panel.
C17_BookkeepingConsistent ==
    LET built == {current_tabs[i].key : i \in DOMAIN current_tabs}
    IN /\ tab_initialized = built
       /\ tab_initialized \subseteq JsonKeys
       /\ built \subseteq JsonKeys
       /\ \A i \in DOMAIN search_results : search_results[i][1] \in built

====
